---- MODULE Spec2Model ----
(***************************************************************************)
(* A model of wdk-wallet-btc: the Taproot wallet account                   *)
(* (src/src/wallet-account-btc.js), the lazily initialised Electrum client *)
(* wrapper (src/src/electrum-client.js) and the request/response contract  *)
(* of the Electrum gateway the account talks to.                           *)
(*                                                                         *)
(* Four specifications share the variables:                                *)
(*   Spec          the account: key material, dispose, sign and the        *)
(*                 transaction pipeline (_getTransaction, _getUtxos,       *)
(*                 _getRawTransaction, broadcast), one step per await      *)
(*   SpecTransfers getTransfers over bounded histories                     *)
(*   SpecEnsure    the _ready promise of the Electrum client wrapper       *)
(*   SpecGateway   request ids and responses of the gateway                *)
(***************************************************************************)
EXTENDS Integers, Sequences, FiniteSets, TLC

VARIABLES
    \* ---- account (wallet-account-btc.js) ----
    masterNode,     \* this._masterNode: [privateKey, chainCode]
    account,        \* this._account: [defined, privateKey, chainCode, publicKey]
    disconnects,    \* number of this._electrumClient.disconnect() calls made by dispose
    lastSync,       \* the last synchronous operation (sign, dispose): whether the account
                    \* was disposed when it was called, and its outcome
    calls,          \* the asynchronous calls in progress, one record per call slot
    \* ---- Electrum server as seen through the gateway ----
    unspent,        \* listunspent answer for the account's address, in server order
    spent,          \* outpoints consumed by broadcasts the server accepted
    feeEstimate,    \* getFeeEstimateInSatsPerVb answer, in tenths of sat/vB
    \* ---- getTransfers ----
    history,        \* get_history answer: sequence of tx ids
    failing,        \* tx ids whose getTransaction request fails
    transfersCall,  \* options and outcome of the last getTransfers call
    \* ---- Electrum client wrapper (electrum-client.js) ----
    ready,          \* this._ready: 0 (null) or the id of the initialization it holds
    inits,          \* every initialization started so far
    callers,        \* proxied calls
    \* ---- gateway request/response matching ----
    nextId,         \* id the next request gets
    pending,        \* requests awaiting a response
    wire,           \* responses the server has sent and the client has not read yet
    settled,        \* settled requests, each with the response that settled it
    discarded,      \* number of responses dropped because no request had their id
    \* ---- gateway connection ----
    socket,         \* "none" or "connected": what isConnected() reports
    retry,          \* the request that is connecting before it is written
    rejected,       \* requests that failed, each with its error
    connections     \* number of connections established so far

acctVars == <<masterNode, account, disconnects, lastSync, calls, unspent, spent, feeEstimate>>
histVars == <<history, failing, transfersCall>>
ensVars  == <<ready, inits, callers>>
connVars == <<socket, retry, rejected, connections>>
gwVars   == <<nextId, pending, wire, settled, discarded, connVars>>
vars     == <<acctVars, histVars, ensVars, gwVars>>

(***************************************************************************)
(* Program constants                                                       *)
(***************************************************************************)
DUST_LIMIT == 546
MIN_FEE    == 141

(***************************************************************************)
(* Bounds of the model                                                     *)
(***************************************************************************)
MaxUtxos == 2       \* longest unspent list the server answers with

(***************************************************************************)
(* Small helpers                                                           *)
(***************************************************************************)
RECURSIVE SumValues(_)
SumValues(s) == IF s = <<>> THEN 0 ELSE Head(s).value + SumValues(Tail(s))

\* A maximum that always answers its second argument
Max_Second(a, b) == b

\* BigNumber.max
Max(a, b) == IF a >= b THEN a ELSE b

\* A rounding that goes down instead of up
CeilDiv_Floor(n, d) == n \div d

\* integerValue(ROUND_CEIL) of n/d for d > 0
CeilDiv(n, d) == (n + d - 1) \div d

(***************************************************************************)
(* Addresses and scripts.  An address is <<kind, key>>; the script paying  *)
(* it is the record [kind, key]; ScriptLen is the script's byte length.     *)
(***************************************************************************)
ScriptLen(kind) ==
    CASE kind = "p2tr"   -> 34
      [] kind = "p2wpkh" -> 22
      [] OTHER           -> 12      \* OP_RETURN pushing 10 bytes of data

\* address.toOutputScript, as used by psbt.addOutput({ address, value })
ToOutputScript(address) == [kind |-> address[1], key |-> address[2]]

OpReturnScript == [kind |-> "opreturn", key |-> 0]

(***************************************************************************)
(* Key material.  Keys are abstract byte strings: a positive number stands *)
(* for bytes that are not all zero, 0 for a zeroed buffer.                 *)
(***************************************************************************)
Seeds == {1, 2}
Paths == {0, 1}

\* hmac(sha512, 'Bitcoin seed', seed), split in two halves, copied into the node
FromSeed(seed) == [privateKey |-> 2 * seed + 1, chainCode |-> 2 * seed + 2]

\* masterNode.derivePath(path)
DeriveChild(master, path) ==
    [defined    |-> TRUE,
     privateKey |-> 10 * master.privateKey + path + 1,
     chainCode  |-> 10 * master.chainCode + path + 1,
     publicKey  |-> 1000 + 10 * master.privateKey + path + 1]

derivePath(seed, path) ==
    [masterNode |-> FromSeed(seed), account |-> DeriveChild(FromSeed(seed), path)]

\* The account's own Taproot address: payments.p2tr({ internalPubkey }).address.
\* It is cached in this._address at construction and survives dispose.
SelfKey     == "self"
SelfAddress == <<"p2tr", SelfKey>>
SelfScript  == ToOutputScript(SelfAddress)

\* this._account = undefined
UndefinedAccount == [defined |-> FALSE, privateKey |-> 0, chainCode |-> 0, publicKey |-> 0]

(***************************************************************************)
(* The chain behind the server.  FundingTx(h) is the list of outputs of    *)
(* the transaction with id h; an unspent entry names one of them by        *)
(* (tx_hash, tx_pos), tx_pos counting from 0 as in the source.             *)
(***************************************************************************)
OtherScript == [kind |-> "p2tr", key |-> "other"]

FundingTx(h) ==
    CASE h = 1 -> <<[value |-> 700, script |-> SelfScript]>>
      [] h = 2 -> <<[value |-> 300, script |-> OtherScript], [value |-> 1000, script |-> SelfScript]>>
      [] OTHER -> <<[value |-> 2000, script |-> SelfScript], [value |-> 900, script |-> OtherScript]>>

Utxos ==
    { [tx_hash |-> 1, tx_pos |-> 0, value |-> 700],
      [tx_hash |-> 2, tx_pos |-> 1, value |-> 1000],
      [tx_hash |-> 3, tx_pos |-> 0, value |-> 2000] }

UnspentLists ==
    { s \in UNION { [1..n -> Utxos] : n \in 0..MaxUtxos } :
        \A i, j \in DOMAIN s : i # j => s[i] # s[j] }

Outpoint(u) == <<u.tx_hash, u.tx_pos>>

\* Fee rates the server answers with, in tenths of sat/vB (0.5, 1, 2.5)
ServerFeeRates == {5, 10, 25}

Recipients == { <<"p2tr", "r1">> }
Amounts    == {500, 600, 1300, 1500}

\* additionalOutputs entries: { script } | { address, value } | neither
AdditionalOutput(kind, hasValue, value) == [kind |-> kind, hasValue |-> hasValue, value |-> value]

AdditionalChoices ==
    { <<>>,
      <<AdditionalOutput("script", FALSE, 0)>>,
      <<AdditionalOutput("address", TRUE, 600)>>,
      <<AdditionalOutput("address", TRUE, DUST_LIMIT)>>,
      <<AdditionalOutput("script", TRUE, 5)>>,
      <<AdditionalOutput("neither", FALSE, 0)>> }

\* feeRate argument of _getTransaction in tenths of sat/vB; 0 stands for "not given"
CustomFeeRates == {0, 20}

(***************************************************************************)
(* _getRawTransaction                                                      *)
(***************************************************************************)
RECURSIVE OutputBytes(_)
OutputBytes(outs) ==
    IF outs = <<>> THEN 0
    ELSE 8 + 1 + ScriptLen(Head(outs).script.kind) + OutputBytes(Tail(outs))

\* Transaction.virtualSize() of a transaction with nIn Taproot key-path inputs:
\* ceil(weight / 4), weight = 4 * stripped size + witness size (BIP-141)
VirtualSize(nIn, outs) ==
    LET base    == 4 + 1 + 41 * nIn + 1 + OutputBytes(outs) + 4
        witness == 2 + 66 * nIn
    IN  CeilDiv(4 * base + witness, 4)

\* The additionalOutputs.reduce of createPsbt: the outputs it adds, the total it
\* returns, or the error of the first entry it rejects.
RECURSIVE AddAdditionalOutputs(_)
AddAdditionalOutputs(additionalOutputs) ==
    IF additionalOutputs = <<>> THEN [err |-> "none", outs |-> <<>>, total |-> 0]
    ELSE
      LET out  == Head(additionalOutputs)
          rest == AddAdditionalOutputs(Tail(additionalOutputs))
          bad(e) == [err |-> e, outs |-> <<>>, total |-> 0]
      IN  CASE out.kind = "script" ->
                 IF out.hasValue /\ out.value # 0 THEN bad("OpReturnValue")
                 ELSE IF rest.err # "none" THEN rest
                 ELSE [err |-> "none",
                       outs |-> <<[value |-> 0, script |-> OpReturnScript]>> \o rest.outs,
                       total |-> rest.total]
            [] out.kind = "address" ->
                 IF out.value <= DUST_LIMIT THEN bad("AdditionalBelowDust")
                 ELSE IF rest.err # "none" THEN rest
                 ELSE [err |-> "none",
                       outs |-> <<[value |-> out.value, script |-> OtherScript]>> \o rest.outs,
                       total |-> out.value + rest.total]
            [] OTHER -> bad("AdditionalInvalid")

NoTx == [ins |-> <<>>, outs |-> <<>>]

\* createPsbt with the dust test on the change left out: any positive change
\* becomes an output
createPsbt_NoDustCheck(utxoSet, amount, recipient, additionalOutputs, fee, acct) ==
    LET totalInput == SumValues(utxoSet)
        add        == AddAdditionalOutputs(additionalOutputs)
        change     == totalInput - amount - add.total - fee
        outs0      == <<[value |-> amount, script |-> ToOutputScript(recipient)]>> \o add.outs
        outs       == IF change > 0
                      THEN Append(outs0, [value |-> change, script |-> SelfScript])
                      ELSE outs0
        fail(e, ch) == [err |-> e, change |-> ch, tx |-> NoTx]
    IN  IF add.err # "none" THEN fail(add.err, <<>>)
        ELSE IF change < 0 THEN fail("InsufficientBalance", <<change>>)
        ELSE IF ~acct.defined THEN fail("TypeError", <<change>>)
        ELSE IF \E i \in 1..Len(utxoSet) : utxoSet[i].vout.script # SelfScript
             THEN fail("CannotSign", <<change>>)
        ELSE [err |-> "none", change |-> <<change>>, tx |-> [ins |-> utxoSet, outs |-> outs]]

\* createPsbt with the test for a negative change left out
createPsbt_NoBalanceCheck(utxoSet, amount, recipient, additionalOutputs, fee, acct) ==
    LET totalInput == SumValues(utxoSet)
        add        == AddAdditionalOutputs(additionalOutputs)
        change     == totalInput - amount - add.total - fee
        outs0      == <<[value |-> amount, script |-> ToOutputScript(recipient)]>> \o add.outs
        outs       == IF change > DUST_LIMIT
                      THEN Append(outs0, [value |-> change, script |-> SelfScript])
                      ELSE outs0
        fail(e, ch) == [err |-> e, change |-> ch, tx |-> NoTx]
    IN  IF add.err # "none" THEN fail(add.err, <<>>)
        ELSE IF ~acct.defined THEN fail("TypeError", <<change>>)
        ELSE IF \E i \in 1..Len(utxoSet) : utxoSet[i].vout.script # SelfScript
             THEN fail("CannotSign", <<change>>)
        ELSE [err |-> "none", change |-> <<change>>, tx |-> [ins |-> utxoSet, outs |-> outs]]

\* createPsbt whose change output forgets the fee: it carries the change plus fee
createPsbt_ChangeKeepsFee(utxoSet, amount, recipient, additionalOutputs, fee, acct) ==
    LET totalInput == SumValues(utxoSet)
        add        == AddAdditionalOutputs(additionalOutputs)
        change     == totalInput - amount - add.total - fee
        outs0      == <<[value |-> amount, script |-> ToOutputScript(recipient)]>> \o add.outs
        outs       == IF change > DUST_LIMIT
                      THEN Append(outs0, [value |-> change + fee, script |-> SelfScript])
                      ELSE outs0
        fail(e, ch) == [err |-> e, change |-> ch, tx |-> NoTx]
    IN  IF add.err # "none" THEN fail(add.err, <<>>)
        ELSE IF ~(change > DUST_LIMIT) /\ change < 0 THEN fail("InsufficientBalance", <<change>>)
        ELSE IF ~acct.defined THEN fail("TypeError", <<change>>)
        ELSE IF \E i \in 1..Len(utxoSet) : utxoSet[i].vout.script # SelfScript
             THEN fail("CannotSign", <<change>>)
        ELSE [err |-> "none", change |-> <<change>>, tx |-> [ins |-> utxoSet, outs |-> outs]]

\* createPsbt(fee) with the variables its closure captures.  The result carries
\* the change it computed (empty when it threw before computing it).
createPsbt(utxoSet, amount, recipient, additionalOutputs, fee, acct) ==
    LET totalInput == SumValues(utxoSet)
        add        == AddAdditionalOutputs(additionalOutputs)
        change     == totalInput - amount - add.total - fee
        outs0      == <<[value |-> amount, script |-> ToOutputScript(recipient)]>> \o add.outs
        outs       == IF change > DUST_LIMIT
                      THEN Append(outs0, [value |-> change, script |-> SelfScript])
                      ELSE outs0
        fail(e, ch) == [err |-> e, change |-> ch, tx |-> NoTx]
    IN  IF add.err # "none" THEN fail(add.err, <<>>)
        ELSE IF ~(change > DUST_LIMIT) /\ change < 0 THEN fail("InsufficientBalance", <<change>>)
        \* ecc.privateAdd(this._account.privateKey, ...) with this._account undefined
        ELSE IF ~acct.defined THEN fail("TypeError", <<change>>)
        \* signTaprootInput: the tweaked key signs only for the account's own script
        ELSE IF \E i \in 1..Len(utxoSet) : utxoSet[i].vout.script # SelfScript
             THEN fail("CannotSign", <<change>>)
        ELSE [err |-> "none", change |-> <<change>>, tx |-> [ins |-> utxoSet, outs |-> outs]]

\* feeRate is in tenths of sat/vB
getRawTransaction(utxoSet, amount, recipient, feeRate, additionalOutputs, acct) ==
    LET fail(e, chs, n) == [err |-> e, tx |-> NoTx, fee |-> 0, changes |-> chs, builds |-> n]
        dummy        == createPsbt(utxoSet, amount, recipient, additionalOutputs, 0, acct)
        estimatedFee == Max(CeilDiv(feeRate * VirtualSize(Len(dummy.tx.ins), dummy.tx.outs), 10), MIN_FEE)
        psbt         == createPsbt(utxoSet, amount, recipient, additionalOutputs, estimatedFee, acct)
    IN  IF amount <= DUST_LIMIT THEN fail("DustLimit", <<>>, 0)
        ELSE IF dummy.err # "none" THEN fail(dummy.err, dummy.change, 1)
        ELSE IF psbt.err # "none" THEN fail(psbt.err, dummy.change \o psbt.change, 2)
        ELSE [err |-> "none", tx |-> psbt.tx, fee |-> estimatedFee,
              changes |-> dummy.change \o psbt.change, builds |-> 2]

\* tx.getId(): the id commits to the outpoints spent and the outputs, not the witness
NoHash == [ins |-> <<>>, outs |-> <<>>]
TxId(tx) == [ins |-> [i \in 1..Len(tx.ins) |-> Outpoint(tx.ins[i])], outs |-> tx.outs]

(***************************************************************************)
(* Asynchronous calls of the account.  A call record holds the position of *)
(* the call (pc), its arguments, the locals of _getTransaction/_getUtxos,  *)
(* the gateway requests it has issued so far and its outcome.              *)
(***************************************************************************)
\* Two calls may be in progress at once; every await is a point where the other
\* call can run
Calls == {1, 2}

\* The call the single-caller specification makes
SingleCall == {1}

NoResult == [status |-> "none", hash |-> NoHash, fee |-> 0]

IdleCall ==
    [pc |-> "idle", op |-> "none", recipient |-> <<"p2tr", "none">>, amount |-> 0,
     additionalOutputs |-> <<>>, customFeeRate |-> 0, startedDisposed |-> FALSE,
     list |-> <<>>, idx |-> 0, utxos |-> <<>>, totalCollected |-> 0,
     reqs |-> <<>>, tx |-> NoTx, fee |-> 0, changes |-> <<>>, builds |-> 0,
     result |-> NoResult]

\* A gateway request of a call: the method, whether the gateway answered it, and
\* for getUnspent the length of the list in the answer
Req(method, ok, size) == [method |-> method, ok |-> ok, size |-> IF ok THEN size ELSE 0]

\* The call ends by throwing e.
Throw(call, e) == [call EXCEPT !.pc = "done", !.result = [status |-> e, hash |-> NoHash, fee |-> 0]]

\* Entry of sendTransaction, quoteSendTransaction and _getTransaction: nothing is
\* checked before _getUtxos awaits the unspent list.
StartCall(c, op, recipient, amount, customFeeRate, additionalOutputs) ==
    /\ calls[c].pc = "idle"
    /\ calls' = [calls EXCEPT ![c] =
            [IdleCall EXCEPT !.pc = "getUnspent", !.op = op, !.recipient = recipient,
                             !.amount = amount, !.customFeeRate = customFeeRate,
                             !.additionalOutputs = additionalOutputs,
                             !.startedDisposed = ~account.defined]]
    /\ UNCHANGED <<masterNode, account, disconnects, lastSync, unspent, spent, feeEstimate>>
    /\ UNCHANGED <<histVars, ensVars, gwVars>>

sendTransaction(c, to, value) == StartCall(c, "sendTransaction", to, value, 0, <<>>)

quoteSendTransaction(c, to, value) == StartCall(c, "quoteSendTransaction", to, value, 0, <<>>)

getTransaction(c, recipient, amount, feeRate, additionalOutputs) ==
    StartCall(c, "_getTransaction", recipient, amount, feeRate, additionalOutputs)

\* totalOutputAmount of _getTransaction: amount plus (out.value || 0) of every
\* additional output
RECURSIVE AdditionalOutputsTotal(_)
AdditionalOutputsTotal(additionalOutputs) ==
    IF additionalOutputs = <<>> THEN 0
    ELSE (IF Head(additionalOutputs).hasValue THEN Head(additionalOutputs).value ELSE 0)
         + AdditionalOutputsTotal(Tail(additionalOutputs))

TotalOutputAmount(call) == call.amount + AdditionalOutputsTotal(call.additionalOutputs)

\* quoteSendTransaction that goes on to broadcast as sendTransaction does
Build_QuoteBroadcasts(call, feeRate) ==
    LET raw == getRawTransaction(call.utxos, call.amount, call.recipient,
                                 IF feeRate < 10 THEN 10 ELSE feeRate,
                                 call.additionalOutputs, account)
        c1  == [call EXCEPT !.changes = raw.changes, !.builds = raw.builds]
    IN  IF raw.err # "none" THEN Throw(c1, raw.err)
        ELSE IF call.op \in {"sendTransaction", "quoteSendTransaction"}
             THEN [c1 EXCEPT !.pc = "broadcast", !.tx = raw.tx, !.fee = raw.fee]
        ELSE [c1 EXCEPT !.pc = "done", !.tx = raw.tx, !.fee = raw.fee,
                        !.result = [status |-> "ok", hash |-> TxId(raw.tx), fee |-> raw.fee]]

\* _getRawTransaction and what its caller does with the outcome: quoteSendTransaction
\* and _getTransaction return, sendTransaction goes on to broadcast.
Build(call, feeRate) ==
    LET raw == getRawTransaction(call.utxos, call.amount, call.recipient,
                                 IF feeRate < 10 THEN 10 ELSE feeRate,
                                 call.additionalOutputs, account)
        c1  == [call EXCEPT !.changes = raw.changes, !.builds = raw.builds]
    IN  IF raw.err # "none" THEN Throw(c1, raw.err)
        ELSE IF call.op = "sendTransaction"
             THEN [c1 EXCEPT !.pc = "broadcast", !.tx = raw.tx, !.fee = raw.fee]
        ELSE [c1 EXCEPT !.pc = "done", !.tx = raw.tx, !.fee = raw.fee,
                        !.result = [status |-> "ok",
                                    hash |-> IF call.op = "_getTransaction" THEN TxId(raw.tx) ELSE NoHash,
                                    fee |-> raw.fee]]

\* _getUtxos: await this._electrumClient.getUnspent(address)
GetUnspent(c, ok) ==
    /\ calls[c].pc = "getUnspent"
    /\ LET call == [calls[c] EXCEPT !.reqs = Append(@, Req("getUnspent", ok, Len(unspent)))]
       IN  calls' = [calls EXCEPT ![c] =
              IF ~ok THEN Throw(call, "GatewayError")
              ELSE IF Len(unspent) = 0 THEN Throw(call, "NoUnspent")
              ELSE [call EXCEPT !.pc = "getTransaction", !.list = unspent, !.idx = 1]]
    /\ UNCHANGED <<masterNode, account, disconnects, lastSync, unspent, spent, feeEstimate>>
    /\ UNCHANGED <<histVars, ensVars, gwVars>>

\* The loop of _getUtxos without its break: every unspent output is fetched
GetUtxoTransaction_NoBreak(c, ok) ==
    /\ calls[c].pc = "getTransaction"
    /\ LET call  == [calls[c] EXCEPT !.reqs = Append(@, Req("getTransaction", ok, 0))]
           utxo  == call.list[call.idx]
           vout  == FundingTx(utxo.tx_hash)[utxo.tx_pos + 1]
           entry == [tx_hash |-> utxo.tx_hash, tx_pos |-> utxo.tx_pos, value |-> utxo.value,
                     vout |-> [value |-> vout.value, script |-> vout.script]]
           total == call.totalCollected + utxo.value
           more  == [call EXCEPT !.utxos = Append(@, entry), !.totalCollected = total]
           last  == call.idx = Len(call.list)
       IN  calls' = [calls EXCEPT ![c] =
              IF ~ok THEN Throw(call, "GatewayError")
              ELSE IF ~last THEN [more EXCEPT !.idx = @ + 1]
              ELSE IF call.customFeeRate # 0 THEN Build(more, call.customFeeRate)
              ELSE [more EXCEPT !.pc = "getFeeEstimate"]]
    /\ UNCHANGED <<masterNode, account, disconnects, lastSync, unspent, spent, feeEstimate>>
    /\ UNCHANGED <<histVars, ensVars, gwVars>>

\* One round of the loop of _getUtxos: await getTransaction(utxo.tx_hash), push the
\* entry with the output at tx_pos, stop once the total reaches the amount.  When
\* the loop ends and a fee rate was passed in, _getRawTransaction runs at once.
GetUtxoTransaction(c, ok) ==
    /\ calls[c].pc = "getTransaction"
    /\ LET call  == [calls[c] EXCEPT !.reqs = Append(@, Req("getTransaction", ok, 0))]
           utxo  == call.list[call.idx]
           vout  == FundingTx(utxo.tx_hash)[utxo.tx_pos + 1]
           entry == [tx_hash |-> utxo.tx_hash, tx_pos |-> utxo.tx_pos, value |-> utxo.value,
                     vout |-> [value |-> vout.value, script |-> vout.script]]
           total == call.totalCollected + utxo.value
           more  == [call EXCEPT !.utxos = Append(@, entry), !.totalCollected = total]
           last  == total >= TotalOutputAmount(call) \/ call.idx = Len(call.list)
       IN  calls' = [calls EXCEPT ![c] =
              IF ~ok THEN Throw(call, "GatewayError")
              ELSE IF ~last THEN [more EXCEPT !.idx = @ + 1]
              ELSE IF call.customFeeRate # 0 THEN Build(more, call.customFeeRate)
              ELSE [more EXCEPT !.pc = "getFeeEstimate"]]
    /\ UNCHANGED <<masterNode, account, disconnects, lastSync, unspent, spent, feeEstimate>>
    /\ UNCHANGED <<histVars, ensVars, gwVars>>

\* _getTransaction: await getFeeEstimateInSatsPerVb(), raise the rate to 1 sat/vB,
\* then _getRawTransaction
GetFeeEstimate(c, ok) ==
    /\ calls[c].pc = "getFeeEstimate"
    /\ LET call == [calls[c] EXCEPT !.reqs = Append(@, Req("getFeeEstimate", ok, 0))]
       IN  calls' = [calls EXCEPT ![c] =
              IF ~ok THEN Throw(call, "GatewayError") ELSE Build(call, feeEstimate)]
    /\ UNCHANGED <<masterNode, account, disconnects, lastSync, unspent, spent, feeEstimate>>
    /\ UNCHANGED <<histVars, ensVars, gwVars>>

\* sendTransaction that returns { hash, fee } whatever the server answers to the
\* broadcast
BroadcastTransaction_IgnoreError(c, ok) ==
    /\ calls[c].pc = "broadcast"
    /\ LET call   == [calls[c] EXCEPT !.reqs = Append(@, Req("broadcastTransaction", ok, 0))]
           points == {Outpoint(call.tx.ins[i]) : i \in 1..Len(call.tx.ins)}
           accept == ok /\ points \cap spent = {}
           keep   == {i \in 1..Len(unspent) : Outpoint(unspent[i]) \notin points}
       IN  /\ calls' = [calls EXCEPT ![c] =
                [call EXCEPT !.pc = "done",
                         !.result = [status |-> "ok", hash |-> TxId(call.tx), fee |-> call.fee]]]
           /\ spent' = IF accept THEN spent \cup points ELSE spent
           /\ unspent' = IF accept
                         THEN [k \in 1..Cardinality(keep) |->
                                 unspent[CHOOSE i \in keep : Cardinality({j \in keep : j < i}) = k - 1]]
                         ELSE unspent
    /\ UNCHANGED <<masterNode, account, disconnects, lastSync, feeEstimate>>
    /\ UNCHANGED <<histVars, ensVars, gwVars>>

\* sendTransaction: await broadcastTransaction(tx.hex), then return { hash, fee }.
\* The server rejects a transaction that spends an outpoint already spent.
BroadcastTransaction(c, ok) ==
    /\ calls[c].pc = "broadcast"
    /\ LET call   == [calls[c] EXCEPT !.reqs = Append(@, Req("broadcastTransaction", ok, 0))]
           points == {Outpoint(call.tx.ins[i]) : i \in 1..Len(call.tx.ins)}
           accept == ok /\ points \cap spent = {}
           keep   == {i \in 1..Len(unspent) : Outpoint(unspent[i]) \notin points}
       IN  /\ calls' = [calls EXCEPT ![c] =
                IF ~ok THEN Throw(call, "GatewayError")
                ELSE IF ~accept THEN Throw(call, "RpcError")
                ELSE [call EXCEPT !.pc = "done",
                         !.result = [status |-> "ok", hash |-> TxId(call.tx), fee |-> call.fee]]]
           /\ spent' = IF accept THEN spent \cup points ELSE spent
           /\ unspent' = IF accept
                         THEN [k \in 1..Cardinality(keep) |->
                                 unspent[CHOOSE i \in keep : Cardinality({j \in keep : j < i}) = k - 1]]
                         ELSE unspent
    /\ UNCHANGED <<masterNode, account, disconnects, lastSync, feeEstimate>>
    /\ UNCHANGED <<histVars, ensVars, gwVars>>

(***************************************************************************)
(* Synchronous operations of the account                                   *)
(***************************************************************************)
Messages == {"m1", "m2"}

\* crypto.sha256(Buffer.from(message, 'utf8')) that maps every message to the
\* same digest
Sha256_Constant(message) == 17

\* crypto.sha256(Buffer.from(message, 'utf8')); the digest is one byte here, a
\* different one for each message
Sha256(message) == CASE message = "m1" -> 17 [] message = "m2" -> 200 [] OTHER -> 99

\* BIP32 node.sign(hash): an ECDSA signature by the node's private key, as bytes
EcdsaSign(privateKey, hash) == <<(3 * privateKey + hash) % 256, hash>>

\* BIP32 node.verify(hash, signature): whether the bytes are the signature of the
\* hash by the private key of this public key
EcdsaVerify(publicKey, hash, signature) ==
    /\ Len(signature) = 2
    /\ signature[2] = hash
    /\ signature[1] = (3 * (publicKey - 1000) + hash) % 256

\* buffer.toString('hex'): two hexadecimal digits per byte, high digit first
ToHex(bytes) ==
    [i \in 1..(2 * Len(bytes)) |->
        IF i % 2 = 1 THEN bytes[(i + 1) \div 2] \div 16 ELSE bytes[i \div 2] % 16]

\* Buffer.from(string, 'hex'): one byte per pair of digits
FromHex(hex) ==
    [i \in 1..(Len(hex) \div 2) |-> 16 * hex[2 * i - 1] + hex[2 * i]]

\* The outcome of a synchronous operation: `value` is what sign returned,
\* `message` the message passed to sign or verify, `valid` the answer of verify,
\* `error` the message of the error thrown.  `signature` is the last signature
\* the caller got from sign, which it goes on holding, and `signed` its message.
NoSync ==
    [op |-> "none", disposed |-> FALSE, status |-> "none", value |-> <<>>,
     message |-> "none", valid |-> FALSE, error |-> <<>>,
     signature |-> <<>>, signed |-> "none"]

\* The outcome of operation op, before the operation fills it in
Outcome(op) ==
    [NoSync EXCEPT !.op = op, !.disposed = ~account.defined,
                   !.signature = lastSync.signature, !.signed = lastSync.signed]

\* sign(message): this._account.sign(...) throws a TypeError once dispose has set
\* this._account to undefined
sign(message) ==
    /\ lastSync' =
         IF account.defined
         THEN LET signature == ToHex(EcdsaSign(account.privateKey, Sha256(message)))
              IN  [Outcome("sign") EXCEPT !.status = "ok", !.message = message, !.value = signature,
                                          !.signature = signature, !.signed = message]
         ELSE [Outcome("sign") EXCEPT !.status = "TypeError"]
    /\ UNCHANGED <<masterNode, account, disconnects, calls, unspent, spent, feeEstimate>>
    /\ UNCHANGED <<histVars, ensVars, gwVars>>

\* verify(message, signature), the signature being the one the caller holds;
\* this._account.verify(...) throws a TypeError on a disposed account
verify(message) ==
    /\ lastSync.signed # "none"
    /\ lastSync' =
         IF account.defined
         THEN [Outcome("verify") EXCEPT !.status = "ok", !.message = message,
                                        !.valid = EcdsaVerify(account.publicKey, Sha256(message),
                                                              FromHex(lastSync.signature))]
         ELSE [Outcome("verify") EXCEPT !.status = "TypeError", !.message = message]
    /\ UNCHANGED <<masterNode, account, disconnects, calls, unspent, spent, feeEstimate>>
    /\ UNCHANGED <<histVars, ensVars, gwVars>>

\* dispose(): sodium_memzero(this._account.privateKey); this._account = undefined;
\* this._electrumClient.disconnect().  this._masterNode is left as it is.  On an
\* account already disposed the first statement throws.
dispose ==
    /\ IF account.defined
       THEN /\ account' = UndefinedAccount
            /\ disconnects' = disconnects + 1
            /\ lastSync' = [Outcome("dispose") EXCEPT !.status = "ok"]
       ELSE /\ lastSync' = [Outcome("dispose") EXCEPT !.status = "TypeError"]
            /\ UNCHANGED <<account, disconnects>>
    /\ UNCHANGED <<masterNode, calls, unspent, spent, feeEstimate>>
    /\ UNCHANGED <<histVars, ensVars, gwVars>>

\* Arguments of the token operations
TokenAddresses  == {"token1", "token2"}
TransferOptions == {[token |-> t, amount |-> a] : t \in {"token1", "token2"}, a \in {0, 1000}}

\* An error message that names 'transfer' whatever method was called
UnsupportedMessage_Transfer(method) ==
    <<"The '", "transfer", "' method is not supported on the bitcoin blockchain.">>

\* new Error("The '<method>' method is not supported on the bitcoin blockchain.")
UnsupportedMessage(method) ==
    <<"The '", method, "' method is not supported on the bitcoin blockchain.">>

\* A method whose whole body is that throw
Unsupported(method) ==
    /\ lastSync' = [Outcome(method) EXCEPT !.status = "Unsupported",
                                           !.error = UnsupportedMessage(method)]
    /\ UNCHANGED <<masterNode, account, disconnects, calls, unspent, spent, feeEstimate>>
    /\ UNCHANGED <<histVars, ensVars, gwVars>>

getTokenBalance(tokenAddress) == Unsupported("getTokenBalance")

transfer(options) == Unsupported("transfer")

quoteTransfer(options) == Unsupported("quoteTransfer")

(***************************************************************************)
(* getTransfers.  The history is a list of transactions of HistoryTx; the  *)
(* previous transactions their inputs spend are FundingTx 1..3.  A request *)
(* <<phase, id>> in `failing` is a getTransaction request that fails:      *)
(* phase "tx" for the history entry itself, "value" for the fetch made by  *)
(* getInputValue, "script" for the fetch made by isOutgoingTx.             *)
(***************************************************************************)
MaxHist  == 3       \* longest history
MaxLimit == 2       \* largest limit option
MaxSkip  == 1       \* largest skip option

ThirdScript  == [kind |-> "p2tr", key |-> "third"]
LegacyScript == [kind |-> "p2wpkh", key |-> "legacy"]

Input(hash, index) == [hash |-> hash, index |-> index]

HistoryIds == {11, 12, 13, 14, 15}

HistoryTx(h) ==
    CASE h = 11 ->  \* received from another wallet
           [ins  |-> <<Input(2, 0)>>,
            outs |-> <<[value |-> 250, script |-> SelfScript]>>]
      [] h = 12 ->  \* payment with change
           [ins  |-> <<Input(1, 0)>>,
            outs |-> <<[value |-> 400, script |-> OtherScript], [value |-> 200, script |-> SelfScript]>>]
      [] h = 13 ->  \* batch payment to two recipients, with change
           [ins  |-> <<Input(3, 0)>>,
            outs |-> <<[value |-> 600, script |-> OtherScript], [value |-> 700, script |-> ThirdScript],
                       [value |-> 500, script |-> SelfScript]>>]
      [] h = 14 ->  \* own coins to a non-Taproot output, with change
           [ins  |-> <<Input(2, 1)>>,
            outs |-> <<[value |-> 100, script |-> LegacyScript], [value |-> 800, script |-> SelfScript]>>]
      [] OTHER ->   \* spends a foreign coin and an own coin
           [ins  |-> <<Input(3, 1), Input(2, 1)>>,
            outs |-> <<[value |-> 1000, script |-> OtherScript], [value |-> 800, script |-> SelfScript]>>]

HeightOf(h) == 100 + h

Histories ==
    { s \in UNION { [1..n -> HistoryIds] : n \in 0..MaxHist } :
        \A i, j \in DOMAIN s : i # j => s[i] # s[j] }

FailureScenarios ==
    { {},
      {<<"script", 2>>},
      {<<"value", 2>>},
      {<<"value", 2>>, <<"script", 2>>},
      {<<"value", 1>>, <<"value", 3>>},
      {<<"script", 1>>, <<"script", 3>>, <<"value", 3>>},
      {<<"tx", 13>>},
      {<<"tx", 11>>, <<"value", 2>>} }

Directions == {"all", "incoming", "outgoing"}

NoAddress == <<>>

\* decodeScriptAddress: the address of a P2TR script, null for any other script
decodeScriptAddress(script) ==
    IF script.kind = "p2tr" THEN <<"p2tr", script.key>> ELSE NoAddress

\* getInputValue: the sum of the previous outputs that could be fetched
RECURSIVE getInputValue(_, _)
getInputValue(ins, fail) ==
    IF ins = <<>> THEN 0
    ELSE LET input == Head(ins)
         IN  (IF <<"value", input.hash>> \in fail THEN 0
              ELSE FundingTx(input.hash)[input.index + 1].value)
             + getInputValue(Tail(ins), fail)

\* isOutgoingTx: some previous output that could be fetched pays the account
RECURSIVE isOutgoingTx(_, _)
isOutgoingTx(ins, fail) ==
    IF ins = <<>> THEN FALSE
    ELSE LET input == Head(ins)
             addr  == decodeScriptAddress(FundingTx(input.hash)[input.index + 1].script)
         IN  IF <<"script", input.hash>> \notin fail /\ addr # NoAddress /\ addr = SelfAddress
             THEN TRUE
             ELSE isOutgoingTx(Tail(ins), fail)

NoFee == [known |-> FALSE, value |-> 0]

\* The loop over tx.outs.entries(), from output `index` (counted from 0) on
RECURSIVE TransfersOfOutputs(_, _, _, _, _, _, _, _)
TransfersOfOutputs(item, outs, index, fee, outgoing, direction, limit, transfers) ==
    IF index >= Len(outs) THEN transfers
    ELSE
      LET out      == outs[index + 1]
          addr     == decodeScriptAddress(out.script)
          isToSelf == addr = SelfAddress
          directionType ==
              IF isToSelf /\ ~outgoing THEN "incoming"
              ELSE IF ~isToSelf /\ outgoing THEN "outgoing"
              ELSE IF isToSelf /\ outgoing THEN "change"
              ELSE "skip"
          next(t)  == TransfersOfOutputs(item, outs, index + 1, fee, outgoing, direction, limit, t)
      IN  IF addr = NoAddress THEN next(transfers)
          ELSE IF directionType = "skip" \/ directionType = "change" THEN next(transfers)
          ELSE IF direction # "all" /\ direction # directionType THEN next(transfers)
          ELSE IF Len(transfers) >= limit THEN transfers
          ELSE next(Append(transfers,
                   [txid |-> item.tx_hash, height |-> item.height, value |-> out.value,
                    vout |-> index, direction |-> directionType, recipient |-> addr,
                    fee |-> fee, address |-> SelfAddress]))

\* The loop over history.slice(skip); `items` is what is left of the slice
RECURSIVE TransfersOfHistory(_, _, _, _, _)
TransfersOfHistory(items, fail, direction, limit, transfers) ==
    IF items = <<>> \/ Len(transfers) >= limit THEN [status |-> "ok", transfers |-> transfers]
    ELSE
      LET item        == Head(items)
          tx          == HistoryTx(item.tx_hash)
          totalInput  == getInputValue(tx.ins, fail)
          totalOutput == SumValues(tx.outs)
          fee         == IF totalInput > 0 THEN [known |-> TRUE, value |-> totalInput - totalOutput]
                         ELSE NoFee
          outgoing    == isOutgoingTx(tx.ins, fail)
      IN  IF <<"tx", item.tx_hash>> \in fail THEN [status |-> "GatewayError", transfers |-> <<>>]
          ELSE TransfersOfHistory(Tail(items), fail, direction, limit,
                  TransfersOfOutputs(item, tx.outs, 0, fee, outgoing, direction, limit, transfers))

\* history.slice(skip)
SliceFrom(s, skip) == SubSeq(s, skip + 1, Len(s))

\* array.slice(from, to)
Slice(s, from, to) == SubSeq(s, from + 1, IF to < Len(s) THEN to ELSE Len(s))

\* getTransfers that cuts the records of every direction at the limit and only
\* then keeps those of the direction asked for
getTransfers_LimitThenFilter(hist, fail, direction, limit, skip) ==
    LET all == TransfersOfHistory(
                   SliceFrom([i \in 1..Len(hist) |-> [tx_hash |-> hist[i], height |-> HeightOf(hist[i])]], skip),
                   fail, "all", limit, <<>>)
        Wanted(r) == direction = "all" \/ r.direction = direction
    IN  [status |-> all.status, transfers |-> SelectSeq(all.transfers, Wanted)]

getTransfers(hist, fail, direction, limit, skip) ==
    TransfersOfHistory(
        SliceFrom([i \in 1..Len(hist) |-> [tx_hash |-> hist[i], height |-> HeightOf(hist[i])]], skip),
        fail, direction, limit, <<>>)

NoTransfersCall ==
    [done |-> FALSE, direction |-> "all", limit |-> 0, skip |-> 0, status |-> "none", transfers |-> <<>>]

\* A call of getTransfers({ direction, limit, skip }) against the stable history
GetTransfers(direction, limit, skip) ==
    /\ LET r == getTransfers(history, failing, direction, limit, skip)
       IN  transfersCall' = [done |-> TRUE, direction |-> direction, limit |-> limit, skip |-> skip,
                             status |-> r.status, transfers |-> r.transfers]
    /\ UNCHANGED <<history, failing>>
    /\ UNCHANGED <<acctVars, ensVars, gwVars>>

(***************************************************************************)
(* The Electrum client wrapper.  An initialization is the pair of the      *)
(* promise of super.initElectrum (init) and the promise stored in _ready   *)
(* (promise): Promise.race([init, timeout]).catch(...) when _ensure made   *)
(* it, init.catch(...) when reconnect made it.  `ready` is the id of the   *)
(* initialization whose promise _ready holds, 0 for null.                  *)
(***************************************************************************)
MaxInits == 3       \* initializations started in one behaviour

Callers == {1, 2}

IdleCaller == [pc |-> "idle", waitsOn |-> 0]

InFlight(i) == inits[i].init = "pending" /\ inits[i].socket # "closed"

NewInit(by) == [by |-> by, init |-> "pending", promise |-> "pending", socket |-> "current"]

\* The sockets of the initializations started so far, once initSocket() or
\* close() has acted on the client's socket
WithSocket(state) ==
    [i \in 1..Len(inits) |->
        IF inits[i].socket = "current" THEN [inits[i] EXCEPT !.socket = state] ELSE inits[i]]

\* _ensure(): the stored promise if there is one, else a new initialization
ensure ==
    IF ready # 0
    THEN [ready |-> ready, inits |-> inits]
    ELSE [ready |-> Len(inits) + 1, inits |-> Append(inits, NewInit("ensure"))]

\* A proxied method call: await target._ensure()
ProxiedCall(c) ==
    /\ callers[c].pc \in {"idle", "returned", "rejected"}
    /\ ready = 0 => Len(inits) < MaxInits
    /\ ready'   = ensure.ready
    /\ inits'   = ensure.inits
    /\ callers' = [callers EXCEPT ![c] = [pc |-> "waiting", waitsOn |-> ensure.ready]]
    /\ UNCHANGED <<acctVars, histVars, gwVars>>

\* A continuation that runs the method body however the awaited promise settled
ResumeCall_Always(c) ==
    /\ callers[c].pc = "waiting"
    /\ inits[callers[c].waitsOn].promise # "pending"
    /\ callers' = [callers EXCEPT ![c].pc = "returned"]
    /\ UNCHANGED <<ready, inits>>
    /\ UNCHANGED <<acctVars, histVars, gwVars>>

\* The continuation of a proxied call once the promise it awaits has settled:
\* value.apply(obj, args) runs only if the promise was fulfilled
ResumeCall(c) ==
    /\ callers[c].pc = "waiting"
    /\ inits[callers[c].waitsOn].promise # "pending"
    /\ callers' = [callers EXCEPT ![c].pc =
                      IF inits[callers[c].waitsOn].promise = "fulfilled" THEN "returned" ELSE "rejected"]
    /\ UNCHANGED <<ready, inits>>
    /\ UNCHANGED <<acctVars, histVars, gwVars>>

\* What the catch handler of a stored promise does to _ready when the promise of
\* initialization i is rejected: this._ready = null
OnRejected(i) == 0

\* super.initElectrum resolves
InitSucceeds(i) ==
    /\ i \in 1..Len(inits)
    /\ inits[i].init = "pending"
    /\ inits[i].socket # "closed"
    /\ inits' = [inits EXCEPT ![i].init = "fulfilled",
                              ![i].promise = IF @ = "pending" THEN "fulfilled" ELSE @]
    /\ UNCHANGED <<ready, callers>>
    /\ UNCHANGED <<acctVars, histVars, gwVars>>

\* super.initElectrum rejects
InitFails(i) ==
    /\ i \in 1..Len(inits)
    /\ inits[i].init = "pending"
    /\ inits' = [inits EXCEPT ![i].init = "rejected",
                              ![i].promise = IF @ = "pending" THEN "rejected" ELSE @]
    /\ ready' = IF inits[i].promise = "pending" THEN OnRejected(i) ELSE ready
    /\ UNCHANGED callers
    /\ UNCHANGED <<acctVars, histVars, gwVars>>

\* The timer of _ensure fires first: the race rejects, super.initElectrum goes on
InitTimesOut(i) ==
    /\ i \in 1..Len(inits)
    /\ inits[i].by = "ensure"
    /\ inits[i].promise = "pending"
    /\ inits' = [inits EXCEPT ![i].promise = "rejected"]
    /\ ready' = OnRejected(i)
    /\ UNCHANGED callers
    /\ UNCHANGED <<acctVars, histVars, gwVars>>

\* reconnect(): initSocket(), a new super.initElectrum, _ready replaced
Reconnect ==
    /\ Len(inits) < MaxInits
    /\ inits' = Append(WithSocket("replaced"), NewInit("reconnect"))
    /\ ready' = Len(inits) + 1
    /\ UNCHANGED callers
    /\ UNCHANGED <<acctVars, histVars, gwVars>>

\* close(): super.close(), _ready = null
Close ==
    /\ inits' = WithSocket("closed")
    /\ ready' = 0
    /\ UNCHANGED callers
    /\ UNCHANGED <<acctVars, histVars, gwVars>>

(***************************************************************************)
(* The gateway's request/response matching: every request gets a fresh id  *)
(* and waits in `pending`; a response read from the socket settles the     *)
(* pending request that carries its id, and is dropped if there is none.   *)
(***************************************************************************)
MaxRequests == 3    \* requests issued in one behaviour
MaxStray    == 2    \* responses the server sends that answer no request

Methods == {"blockchain.estimatefee", "blockchain.transaction.get"}

\* The server's answer to the request with this id and method
Answer(id, method) == <<"result", method, id>>

\* request(method, params): write { id, method } and wait
Request(method) ==
    /\ nextId <= MaxRequests
    /\ pending' = pending \cup {[id |-> nextId, method |-> method]}
    /\ wire'    = wire \cup {[id |-> nextId, result |-> Answer(nextId, method), stray |-> FALSE]}
    /\ nextId'  = nextId + 1
    /\ UNCHANGED <<settled, discarded, connVars>>
    /\ UNCHANGED <<acctVars, histVars, ensVars>>

\* The server sends a response whose id belongs to no request awaiting one
StrayResponse(id) ==
    /\ Cardinality({r \in wire : r.stray}) + discarded < MaxStray
    /\ id \notin {p.id : p \in pending}
    /\ wire' = wire \cup {[id |-> id, result |-> <<"result", "stray", id>>, stray |-> TRUE]}
    /\ UNCHANGED <<nextId, pending, settled, discarded, connVars>>
    /\ UNCHANGED <<acctVars, histVars, ensVars>>

\* Matching that hands a response to the oldest pending request, whatever its id
Matching_Oldest(response) ==
    {p \in pending : \A q \in pending : p.id <= q.id}

\* The pending requests a response settles
Matching(response) == {p \in pending : p.id = response.id}

\* The data handler: one response line read from the socket, in any order
Deliver(response) ==
    /\ response \in wire
    /\ wire' = wire \ {response}
    /\ IF Matching(response) = {}
       THEN /\ discarded' = discarded + 1
            /\ UNCHANGED <<pending, settled>>
       ELSE /\ pending' = pending \ Matching(response)
            /\ settled' = settled \cup
                 {[id |-> p.id, method |-> p.method, response |-> response.id,
                   result |-> response.result] : p \in Matching(response)}
            /\ UNCHANGED discarded
    /\ UNCHANGED <<nextId, connVars>>
    /\ UNCHANGED <<acctVars, histVars, ensVars>>

(***************************************************************************)
(* The gateway's connection: it connects lazily when a request finds it    *)
(* not connected, trying up to maxRetry + 1 times; a socket error, close   *)
(* or end event resets it and fails the requests in flight.                *)
(***************************************************************************)
DefaultMaxRetry == 2

NoRetry == [active |-> FALSE, id |-> 0, method |-> "none", attempts |-> 0]

SocketEvents == {"error", "close", "end"}

\* A request made while the gateway is not connected: connect first
BeginRequest(method) ==
    /\ socket = "none" /\ ~retry.active
    /\ nextId <= MaxRequests
    /\ retry'  = [active |-> TRUE, id |-> nextId, method |-> method, attempts |-> 0]
    /\ nextId' = nextId + 1
    /\ UNCHANGED <<pending, wire, settled, discarded, socket, rejected, connections>>
    /\ UNCHANGED <<acctVars, histVars, ensVars>>

\* A connection attempt that fails is followed by no further attempt
ConnectFails_NoRetry ==
    /\ retry.active
    /\ rejected' = rejected \cup
          {[id |-> retry.id, method |-> retry.method, error |-> "ConnectFailed",
            attempts |-> retry.attempts + 1]}
    /\ retry' = NoRetry
    /\ UNCHANGED <<nextId, pending, wire, settled, discarded, socket, connections>>
    /\ UNCHANGED <<acctVars, histVars, ensVars>>

\* A connection attempt of the connecting request fails: try again, or after
\* maxRetry + 1 attempts fail the request with 'Failed to connect after retries'
ConnectFails ==
    /\ retry.active
    /\ IF retry.attempts + 1 > DefaultMaxRetry
       THEN /\ rejected' = rejected \cup
                  {[id |-> retry.id, method |-> retry.method, error |-> "ConnectFailed",
                    attempts |-> retry.attempts + 1]}
            /\ retry' = NoRetry
       ELSE /\ retry' = [retry EXCEPT !.attempts = @ + 1]
            /\ UNCHANGED rejected
    /\ UNCHANGED <<nextId, pending, wire, settled, discarded, socket, connections>>
    /\ UNCHANGED <<acctVars, histVars, ensVars>>

\* A connection attempt succeeds: the request is written on the new connection
ConnectSucceeds ==
    /\ retry.active
    /\ socket'  = "connected"
    /\ connections' = connections + 1
    /\ pending' = pending \cup {[id |-> retry.id, method |-> retry.method]}
    /\ wire'    = wire \cup {[id |-> retry.id, result |-> Answer(retry.id, retry.method), stray |-> FALSE]}
    /\ retry'   = NoRetry
    /\ UNCHANGED <<nextId, settled, discarded, rejected>>
    /\ UNCHANGED <<acctVars, histVars, ensVars>>

\* A socket event that resets the connection and leaves the requests in flight
\* waiting
SocketDrop_KeepPending(event) ==
    /\ socket = "connected"
    /\ socket' = "none"
    /\ wire' = {}
    /\ UNCHANGED <<nextId, pending, settled, discarded, retry, rejected, connections>>
    /\ UNCHANGED <<acctVars, histVars, ensVars>>

\* The socket of an established connection emits error, close or end: the
\* gateway is no longer connected, the requests in flight fail, and what the
\* server had still to send is lost
SocketDrop(event) ==
    /\ socket = "connected"
    /\ socket' = "none"
    /\ rejected' = rejected \cup
          {[id |-> p.id, method |-> p.method, error |-> "SocketClosed", attempts |-> 0] : p \in pending}
    /\ pending' = {}
    /\ wire' = {}
    /\ UNCHANGED <<nextId, settled, discarded, retry, connections>>
    /\ UNCHANGED <<acctVars, histVars, ensVars>>

\* A request made on the established connection
SendRequest(method) == socket = "connected" /\ Request(method)

\* A response read from the established connection
ReadResponse(response) == socket = "connected" /\ Deliver(response)

(***************************************************************************)
(* Initial states and specifications                                       *)
(***************************************************************************)
AccountIdle ==
    /\ masterNode = FromSeed(1)
    /\ account = DeriveChild(FromSeed(1), 0)
    /\ disconnects = 0
    /\ lastSync = NoSync
    /\ calls = [c \in Calls |-> IdleCall]
    /\ unspent = <<>>
    /\ spent = {}
    /\ feeEstimate = 10

TransfersIdle ==
    /\ history = <<>>
    /\ failing = {}
    /\ transfersCall = NoTransfersCall

EnsureIdle ==
    /\ ready = 0
    /\ inits = <<>>
    /\ callers = [c \in Callers |-> IdleCaller]

GatewayIdle ==
    /\ nextId = 1
    /\ pending = {}
    /\ wire = {}
    /\ settled = {}
    /\ discarded = 0
    /\ socket = "none"
    /\ retry = NoRetry
    /\ rejected = {}
    /\ connections = 0

\* The account after its constructor: keys derived, nothing requested yet
Init ==
    /\ \E seed \in Seeds, path \in Paths :
          /\ masterNode = derivePath(seed, path).masterNode
          /\ account = derivePath(seed, path).account
    /\ disconnects = 0
    /\ lastSync = NoSync
    /\ calls = [c \in Calls |-> IdleCall]
    /\ unspent \in UnspentLists
    /\ spent = {}
    /\ feeEstimate \in ServerFeeRates
    /\ TransfersIdle /\ EnsureIdle /\ GatewayIdle

Next ==
    \/ \E c \in SingleCall, to \in Recipients, value \in Amounts : sendTransaction(c, to, value)
    \/ \E c \in SingleCall, to \in Recipients, value \in Amounts : quoteSendTransaction(c, to, value)
    \/ \E c \in SingleCall, to \in Recipients, amount \in Amounts, feeRate \in CustomFeeRates,
          additionalOutputs \in AdditionalChoices :
          getTransaction(c, to, amount, feeRate, additionalOutputs)
    \/ \E c \in SingleCall, ok \in BOOLEAN : GetUnspent(c, ok)
    \/ \E c \in SingleCall, ok \in BOOLEAN : GetUtxoTransaction(c, ok)
    \/ \E c \in SingleCall, ok \in BOOLEAN : GetFeeEstimate(c, ok)
    \/ \E c \in SingleCall, ok \in BOOLEAN : BroadcastTransaction(c, ok)
    \/ \E message \in Messages : sign(message)
    \/ dispose

Spec == Init /\ [][Next]_vars

\* Two callers of sendTransaction and quoteSendTransaction on one account
InitSends ==
    /\ masterNode = FromSeed(1)
    /\ account = DeriveChild(FromSeed(1), 0)
    /\ disconnects = 0
    /\ lastSync = NoSync
    /\ calls = [c \in Calls |-> IdleCall]
    /\ unspent \in UnspentLists
    /\ spent = {}
    /\ feeEstimate \in ServerFeeRates
    /\ TransfersIdle /\ EnsureIdle /\ GatewayIdle

NextSends ==
    \/ \E c \in Calls, to \in Recipients, value \in Amounts : sendTransaction(c, to, value)
    \/ \E c \in Calls, to \in Recipients, value \in Amounts : quoteSendTransaction(c, to, value)
    \/ \E c \in Calls, ok \in BOOLEAN : GetUnspent(c, ok)
    \/ \E c \in Calls, ok \in BOOLEAN : GetUtxoTransaction(c, ok)
    \/ \E c \in Calls, ok \in BOOLEAN : GetFeeEstimate(c, ok)
    \/ \E c \in Calls, ok \in BOOLEAN : BroadcastTransaction(c, ok)

SpecSends == InitSends /\ [][NextSends]_vars

\* The synchronous operations and the operations that always throw, on an
\* account of any seed and path, before and after dispose
InitKeys ==
    /\ \E seed \in Seeds, path \in Paths :
          /\ masterNode = derivePath(seed, path).masterNode
          /\ account = derivePath(seed, path).account
    /\ disconnects = 0
    /\ lastSync = NoSync
    /\ calls = [c \in Calls |-> IdleCall]
    /\ unspent = <<>>
    /\ spent = {}
    /\ feeEstimate = 10
    /\ TransfersIdle /\ EnsureIdle /\ GatewayIdle

NextKeys ==
    \/ \E message \in Messages : sign(message)
    \/ \E message \in Messages : verify(message)
    \/ dispose
    \/ \E tokenAddress \in TokenAddresses : getTokenBalance(tokenAddress)
    \/ \E options \in TransferOptions : transfer(options)
    \/ \E options \in TransferOptions : quoteTransfer(options)

SpecKeys == InitKeys /\ [][NextKeys]_vars

InitTransfers ==
    /\ history \in Histories
    /\ failing \in FailureScenarios
    /\ transfersCall = NoTransfersCall
    /\ AccountIdle /\ EnsureIdle /\ GatewayIdle

NextTransfers ==
    \E direction \in Directions, limit \in 0..MaxLimit, skip \in 0..MaxSkip :
        GetTransfers(direction, limit, skip)

SpecTransfers == InitTransfers /\ [][NextTransfers]_vars

InitEnsure == EnsureIdle /\ AccountIdle /\ TransfersIdle /\ GatewayIdle

NextEnsure ==
    \/ \E c \in Callers : ProxiedCall(c)
    \/ \E c \in Callers : ResumeCall(c)
    \/ \E i \in 1..MaxInits : InitSucceeds(i)
    \/ \E i \in 1..MaxInits : InitFails(i)
    \/ \E i \in 1..MaxInits : InitTimesOut(i)
    \/ Reconnect
    \/ Close

SpecEnsure == InitEnsure /\ [][NextEnsure]_vars

\* The same client under the scheduling the runtime gives: a continuation whose
\* promise has settled runs, and the timer of _ensure fires if the race is still
\* pending.  Nothing obliges the server to complete or fail the handshake.
SpecEnsureLive ==
    /\ SpecEnsure
    /\ \A c \in Callers : WF_vars(ResumeCall(c))
    /\ \A i \in 1..MaxInits : WF_vars(InitTimesOut(i))

InitGateway == GatewayIdle /\ AccountIdle /\ TransfersIdle /\ EnsureIdle

NextGateway ==
    \/ \E method \in Methods : Request(method)
    \/ \E id \in 1..(MaxRequests + 1) : StrayResponse(id)
    \/ \E response \in wire : Deliver(response)

SpecGateway == InitGateway /\ [][NextGateway]_vars

InitConnection == GatewayIdle /\ AccountIdle /\ TransfersIdle /\ EnsureIdle

NextConnection ==
    \/ \E method \in Methods : BeginRequest(method)
    \/ ConnectFails
    \/ ConnectSucceeds
    \/ \E event \in SocketEvents : SocketDrop(event)
    \/ \E method \in Methods : SendRequest(method)
    \/ \E response \in wire : ReadResponse(response)

SpecConnection == InitConnection /\ [][NextConnection]_vars

(***************************************************************************)
(* Properties of the transaction pipeline                                  *)
(***************************************************************************)
Built(c) == calls[c].tx # NoTx

\* What the transaction of call c pays to the miners
PaidFee(c) == SumValues(calls[c].tx.ins) - SumValues(calls[c].tx.outs)

\* The change createPsbt computed in the pass that built the transaction
FinalChange(c) == calls[c].changes[Len(calls[c].changes)]

\* C1: for every transaction _getRawTransaction builds, the sum of the input
\* values minus the sum of the output values equals the reported fee, and the
\* reported fee is at least 141 sats, also when the change is dropped as dust.
C1_FeeAccounting ==
    \A c \in Calls :
        Built(c) => PaidFee(c) = calls[c].fee /\ calls[c].fee >= MIN_FEE

C3_Pagination ==
    LET t    == transfersCall
        full == getTransfers(history, failing, t.direction, t.skip + t.limit, 0)
    IN  t.done /\ t.status = "ok" /\ full.status = "ok" =>
            t.transfers = Slice(full.transfers, t.skip, t.skip + t.limit)

\* Whether some input of the history transaction h spends an output whose script
\* encodes the account's own address, as the chain has it
SpendsOwnOutput(h) ==
    \E i \in 1..Len(HistoryTx(h).ins) :
        LET input == HistoryTx(h).ins[i]
        IN  FundingTx(input.hash)[input.index + 1].script = SelfScript

\* C4: every record getTransfers returns as 'outgoing' belongs to a transaction
\* with an input that spends an output of the account's own address, and every
\* record it returns as 'incoming' to a transaction with no such input, also
\* when fetching a previous transaction fails.
C4_Direction ==
    transfersCall.done =>
        \A i \in 1..Len(transfersCall.transfers) :
            LET r == transfersCall.transfers[i]
            IN  /\ r.direction = "outgoing" => SpendsOwnOutput(r.txid)
                /\ r.direction = "incoming" => ~SpendsOwnOutput(r.txid)

\* C12: the fee of every record getTransfers returns is the sum of the values of
\* the previous outputs the transaction spends minus the sum of its output
\* values when every previous output was resolved, and null when at least one
\* was not; it is never a partial or negative amount.
C12_FeeOrUnknown ==
    transfersCall.done =>
        \A i \in 1..Len(transfersCall.transfers) :
            LET r        == transfersCall.transfers[i]
                tx       == HistoryTx(r.txid)
                resolved == \A k \in 1..Len(tx.ins) : <<"value", tx.ins[k].hash>> \notin failing
                paid     == getInputValue(tx.ins, {}) - SumValues(tx.outs)
            IN  /\ resolved => r.fee = [known |-> TRUE, value |-> paid]
                /\ ~resolved => r.fee = NoFee
                /\ r.fee.known => r.fee.value >= 0

\* Every record the history entries after the first `skip` produce, in history
\* order and then output-index order
AllTransfers(skip) == getTransfers(history, failing, "all", 3 * Len(history), skip)

\* Those of them that have the direction asked for
TransfersOfDirection(direction, skip) ==
    LET Wanted(r) == r.direction = direction
    IN  SelectSeq(AllTransfers(skip).transfers, Wanted)

Reportable(h, vout) ==
    LET out == HistoryTx(h).outs[vout + 1]
    IN  /\ out.script.kind = "p2tr"
        /\ (out.script = SelfScript) <=> ~SpendsOwnOutput(h)

\* C27: getTransfers returns no record for a change output (the account's own
\* address in an outgoing transaction), for an output to another address in a
\* transaction that is not outgoing, or for an output that is not P2TR; every
\* other output of a visited transaction yields exactly one record unless the
\* direction filter or the limit excludes it.
C27_RecordsPerOutput ==
    LET t == transfersCall
    IN  t.done /\ t.status = "ok" =>
            /\ \A i \in 1..Len(t.transfers) : Reportable(t.transfers[i].txid, t.transfers[i].vout)
            /\ \A i, j \in 1..Len(t.transfers) :
                  /\ t.transfers[i].txid = t.transfers[j].txid
                  /\ t.transfers[i].vout = t.transfers[j].vout
                  => i = j
            /\ t.direction = "all" /\ Len(t.transfers) < t.limit =>
                  \A k \in (t.skip + 1)..Len(history) :
                      \A vout \in 0..(Len(HistoryTx(history[k]).outs) - 1) :
                          Reportable(history[k], vout) =>
                              \E i \in 1..Len(t.transfers) :
                                  /\ t.transfers[i].txid = history[k]
                                  /\ t.transfers[i].vout = vout

(***************************************************************************)
(* Properties of the account's life cycle                                  *)
(***************************************************************************)
\* C5: after dispose every call of sign, sendTransaction and quoteSendTransaction
\* fails with one and the same error, the one the disposed account raises,
\* whatever the server returns, and returns no signature, hash or fee.
C5_DisposedFails ==
    /\ lastSync.op = "sign" /\ lastSync.disposed =>
           lastSync.status = "TypeError" /\ lastSync.value = <<>>
    /\ \A c \in Calls :
           /\ calls[c].startedDisposed
           /\ calls[c].op \in {"sendTransaction", "quoteSendTransaction"}
           /\ calls[c].pc = "done"
           => /\ calls[c].result.status = "TypeError"
              /\ calls[c].result.hash = NoHash
              /\ calls[c].result.fee = 0

\* C6: after dispose neither the derived node nor the master node holds a
\* non-zero private key or a chain code derived from the seed.
C6_KeysErased ==
    ~account.defined =>
        /\ account.privateKey = 0 /\ account.chainCode = 0
        /\ masterNode.privateKey = 0 /\ masterNode.chainCode = 0

\* C30: dispose is idempotent: called on an account that is already disposed
\* it raises no error and leaves the account disposed with its connection closed.
C30_DisposeIdempotent ==
    lastSync.op = "dispose" /\ lastSync.disposed =>
        /\ lastSync.status = "ok"
        /\ ~account.defined
        /\ disconnects >= 1

\* C15: dispose closes the account's Electrum connection, and no operation
\* called on the account after dispose issues a gateway request.
C15_NoRequestAfterDispose ==
    /\ ~account.defined => disconnects = 1
    /\ \A c \in Calls : calls[c].startedDisposed => calls[c].reqs = <<>>

(***************************************************************************)
(* Properties of the Electrum client wrapper                               *)
(***************************************************************************)
\* C7: at every moment at most one initialization is in flight, and the callers
\* that wait while an initialization is in flight wait on the same one.
C7_SingleInit ==
    /\ Cardinality({i \in 1..Len(inits) : InFlight(i)}) <= 1
    /\ \A c, d \in Callers :
           /\ callers[c].pc = "waiting" /\ InFlight(callers[c].waitsOn)
           /\ callers[d].pc = "waiting" /\ InFlight(callers[d].waitsOn)
           => callers[c].waitsOn = callers[d].waitsOn

\* C24: constructing the client starts no initialization; a proxied call starts
\* one if none is stored, and the body of a proxied method runs only when the
\* promise the call awaited was fulfilled by a successful initialization: when
\* the initialization fails or times out the call rejects and the body never runs.
C24_LazyInit ==
    /\ inits = <<>> => ready = 0 /\ \A c \in Callers : callers[c].pc = "idle"
    /\ \A c \in Callers :
           callers[c].pc # "idle" =>
               /\ callers[c].waitsOn \in 1..Len(inits)
               /\ callers[c].pc = "returned" =>
                     /\ inits[callers[c].waitsOn].promise = "fulfilled"
                     /\ inits[callers[c].waitsOn].init = "fulfilled"
               /\ callers[c].pc = "rejected" => inits[callers[c].waitsOn].promise = "rejected"

\* A proxied call was rejected by the timeout while its initialization was still
\* pending, and the body of another proxied call ran after a later initialization
C24_Witness ==
    \E c, d \in Callers :
        /\ callers[c].pc = "rejected" /\ inits[callers[c].waitsOn].init = "pending"
        /\ callers[d].pc = "returned" /\ callers[d].waitsOn > callers[c].waitsOn

\* An initialization has succeeded within its time on the client's current socket
Initialized ==
    \E i \in 1..Len(inits) : inits[i].promise = "fulfilled" /\ inits[i].socket = "current"

\* C25: after an initialization fails or times out, and after close(), the
\* readiness state is null and the next proxied call starts a fresh
\* initialization; while an initialization has succeeded and close() has not been
\* called, proxied calls start no further initialization.
C25_ReadyReset ==
    [][ /\ (\E i \in 1..Len(inits) :
               i = ready /\ inits[i].promise = "pending" /\ inits'[i].promise = "rejected")
           => ready' = 0
        /\ (\E c \in Callers : callers[c].pc # "waiting" /\ callers'[c].pc = "waiting") =>
              /\ ready = 0 => Len(inits') = Len(inits) + 1 /\ ready' = Len(inits')
              /\ Initialized => inits' = inits
      ]_vars

\* C26: every call that waits for the connection to become ready eventually
\* settles, the timeout rejecting it if the handshake never completes, whether
\* the initialization was started by a proxied call or by reconnect().
C26_WaitersSettle ==
    \A c \in Callers : (callers[c].pc = "waiting") ~> (callers[c].pc # "waiting")

\* C29: the failure or timeout of an initialization clears the readiness state
\* only if that state still refers to the failing initialization; when close() or
\* reconnect() replaced it in the meantime the late failure leaves it as it is.
C29_StaleFailure ==
    [][ \A i \in 1..Len(inits) :
            inits[i].promise = "pending" /\ inits'[i].promise = "rejected" /\ ready # i
            => ready' = ready
      ]_vars

(***************************************************************************)
(* Properties of the gateway's request/response matching                   *)
(***************************************************************************)
\* C8: a pending request is settled only by the response that carries its own
\* id, in whatever order the responses arrive; a response whose id matches no
\* pending request is discarded and leaves the pending requests pending and the
\* results of the other requests unchanged.
C8_MatchedById ==
    [][ /\ \A s \in settled' \ settled :
               /\ s.response = s.id
               /\ [id |-> s.id, method |-> s.method] \in pending \ pending'
        /\ \A p \in pending \ pending' : \E s \in settled' \ settled : s.id = p.id
        /\ settled \subseteq settled'
        /\ discarded' # discarded => pending' = pending /\ settled' = settled
      ]_vars

\* The answer to a later request arrived first and was delivered to it while an
\* earlier request is still pending, and a response without a request was dropped
C8_Witness ==
    /\ discarded > 0
    /\ \E s \in settled, p \in pending : s.id > p.id /\ s.result = Answer(s.id, s.method)

(***************************************************************************)
(* Properties of the errors of the transaction pipeline                    *)
(***************************************************************************)
\* C9: sendTransaction and quoteSendTransaction with value <= 546 fail with the
\* dust-limit error before any gateway request is issued.
C9_DustBeforeRequests ==
    \A c \in Calls :
        calls[c].op \in {"sendTransaction", "quoteSendTransaction"} /\ calls[c].amount <= DUST_LIMIT
        => /\ calls[c].reqs = <<>>
           /\ calls[c].pc = "done" => calls[c].result.status = "DustLimit"

\* The positions of the broadcast requests among the requests of call c
Broadcasts(c) == {i \in 1..Len(calls[c].reqs) : calls[c].reqs[i].method = "broadcastTransaction"}

\* C10: sendTransaction issues at most one broadcast request, and only as its
\* last request after both passes of the build succeeded; a call that failed with
\* the dust-limit, no-unspent-outputs or insufficient-balance error or on a failed
\* gateway read issued none; an empty unspent list yields the no-unspent-outputs
\* error and a negative change computed by createPsbt the insufficient-balance
\* error.
C10_BroadcastOnce ==
    \A c \in Calls :
        /\ calls[c].op # "sendTransaction" => Broadcasts(c) = {}
        /\ Cardinality(Broadcasts(c)) <= 1
        /\ Broadcasts(c) # {} =>
              /\ Built(c) /\ calls[c].builds = 2
              /\ Broadcasts(c) = {Len(calls[c].reqs)}
        /\ calls[c].pc = "done"
              /\ calls[c].result.status \in {"DustLimit", "NoUnspent", "InsufficientBalance"}
              => Broadcasts(c) = {}
        /\ (\E i \in 1..Len(calls[c].reqs) :
               calls[c].reqs[i].method # "broadcastTransaction" /\ ~calls[c].reqs[i].ok)
              => Broadcasts(c) = {} /\ calls[c].result.status = "GatewayError"
        /\ calls[c].reqs # <<>> /\ calls[c].reqs[1].ok /\ calls[c].reqs[1].size = 0
              => calls[c].pc = "done" /\ calls[c].result.status = "NoUnspent"
        /\ (\E i \in 1..Len(calls[c].changes) : calls[c].changes[i] < 0)
              => calls[c].pc = "done" /\ calls[c].result.status = "InsufficientBalance"

\* sendTransaction failed in the second pass of the build, the fee making the
\* change negative, and nothing was broadcast
C10_Witness ==
    \E c \in Calls :
        /\ calls[c].op = "sendTransaction" /\ calls[c].pc = "done"
        /\ calls[c].result.status = "InsufficientBalance"
        /\ Len(calls[c].changes) = 2 /\ calls[c].changes[1] >= 0
        /\ Broadcasts(c) = {}

\* The fee rate of call c in tenths of sat/vB, once raised to 1 sat/vB
RaisedFeeRate(c) ==
    LET rate == IF calls[c].customFeeRate # 0 THEN calls[c].customFeeRate ELSE feeEstimate
    IN  IF rate < 10 THEN 10 ELSE rate

\* The outputs of the transaction the first pass of call c builds with fee 0
FirstPassOutputs(c) ==
    LET outs0 == <<[value |-> calls[c].amount, script |-> ToOutputScript(calls[c].recipient)]>>
                 \o AddAdditionalOutputs(calls[c].additionalOutputs).outs
    IN  IF calls[c].changes[1] > DUST_LIMIT
        THEN Append(outs0, [value |-> calls[c].changes[1], script |-> SelfScript])
        ELSE outs0

RecipientOutput(c) == [value |-> calls[c].amount, script |-> ToOutputScript(calls[c].recipient)]

SelectionDone(c) ==
    \/ calls[c].pc \in {"getFeeEstimate", "broadcast"}
    \/ calls[c].builds >= 1
    \/ calls[c].pc = "done" /\ calls[c].result.status = "DustLimit"
    \/ \E i \in 1..Len(calls[c].reqs) : calls[c].reqs[i].method = "getFeeEstimate"

\* The previous-transaction requests call c has issued
PrevTxRequests(c) ==
    {i \in 1..Len(calls[c].reqs) : calls[c].reqs[i].method = "getTransaction"}

\* C22: for a non-empty unspent list and target amount a, _getUtxos returns, in
\* server order, the shortest prefix of the list whose values sum to at least a,
\* or the whole list when its total is below a; every returned entry carries the
\* script of output tx_pos of its previous transaction, and no previous
\* transaction is fetched for an entry that is not returned.
C22_ShortestPrefix ==
    \A c \in Calls :
        LET a     == TotalOutputAmount(calls[c])
            utxos == calls[c].utxos
            list  == calls[c].list
        IN  /\ Len(utxos) <= Len(list)
            /\ \A i \in 1..Len(utxos) :
                  /\ Outpoint(utxos[i]) = Outpoint(list[i]) /\ utxos[i].value = list[i].value
                  /\ utxos[i].vout = FundingTx(utxos[i].tx_hash)[utxos[i].tx_pos + 1]
                  /\ i < Len(utxos) => SumValues(SubSeq(list, 1, i)) < a
            /\ SelectionDone(c) =>
                  /\ Len(utxos) >= 1
                  /\ SumValues(utxos) >= a \/ Len(utxos) = Len(list)
                  /\ Cardinality(PrevTxRequests(c)) = Len(utxos)

\* _getUtxos returned the first of two unspent outputs and fetched one previous
\* transaction
C22_Witness ==
    \E c \in Calls :
        /\ SelectionDone(c) /\ Len(calls[c].list) = 2 /\ Len(calls[c].utxos) = 1
        /\ Cardinality(PrevTxRequests(c)) = 1

\* C23: sendTransaction fails with the insufficient-balance error only when the
\* total value of all the account's unspent outputs is less than amount + fee;
\* when the selected prefix covers the amount but not amount + fee and further
\* unspent outputs would cover it, the send goes on with them.
C23_SelectionCoversFee ==
    \A c \in Calls :
        /\ calls[c].op = "sendTransaction" /\ calls[c].pc = "done"
        /\ calls[c].result.status = "InsufficientBalance"
        => LET fee == IF Len(calls[c].changes) = 2
                      THEN calls[c].changes[1] - calls[c].changes[2] ELSE 0
           IN  SumValues(calls[c].list) < calls[c].amount + fee

\* The virtual size of the transaction call c built
FinalVirtualSize(c) == VirtualSize(Len(calls[c].tx.ins), calls[c].tx.outs)

\* C28: what a built transaction pays to the miners is at least the reported
\* fee, and the reported fee is at least ceil(r * vsize) of the final
\* transaction, r being the fee rate raised to at least 1 sat/vB (in tenths).
C28_FeeCoversFinalSize ==
    \A c \in Calls :
        Built(c) =>
            /\ PaidFee(c) >= calls[c].fee
            /\ 10 * calls[c].fee >= RaisedFeeRate(c) * FinalVirtualSize(c)

\* A built transaction that lost its change output in the second pass: it pays
\* more than the reported fee, which is above the rate times its final size
C28_Witness ==
    \E c \in Calls :
        /\ Built(c) /\ calls[c].pc = "done"
        /\ PaidFee(c) > calls[c].fee
        /\ FinalVirtualSize(c) < VirtualSize(Len(calls[c].utxos), FirstPassOutputs(c))
        /\ 10 * (calls[c].fee - 1) >= RaisedFeeRate(c) * FinalVirtualSize(c)

(***************************************************************************)
(* Properties of concurrent calls                                          *)
(***************************************************************************)
\* The outpoints the transaction of call c spends
Spends(c) == {Outpoint(calls[c].tx.ins[i]) : i \in 1..Len(calls[c].tx.ins)}

\* Call c is a sendTransaction that returned a transaction hash
Sent(c) ==
    calls[c].op = "sendTransaction" /\ calls[c].pc = "done" /\ calls[c].result.status = "ok"

\* C11: of two sendTransaction calls that run concurrently on one account and
\* build transactions spending a common unspent output, at most one returns a
\* transaction hash, the server having rejected the other's broadcast; the
\* account never reports success for two spends of the same output.
C11_NoDoubleSpend ==
    \A c, d \in Calls :
        /\ Sent(c) => calls[c].result.hash = TxId(calls[c].tx) /\ Spends(c) \subseteq spent
        /\ c # d /\ Sent(c) /\ Sent(d) => Spends(c) \cap Spends(d) = {}
        /\ c # d /\ Sent(c) /\ calls[d].op = "sendTransaction" /\ calls[d].pc = "done"
              /\ Built(d) /\ Spends(c) \cap Spends(d) # {}
              => calls[d].result.status \in {"RpcError", "GatewayError"}
                 /\ calls[d].result.hash = NoHash

\* Both calls selected the same unspent output and built a transaction; one
\* returned its hash, the other failed with the server's error
C11_Witness ==
    \E c, d \in Calls :
        /\ c # d /\ Sent(c)
        /\ calls[d].op = "sendTransaction" /\ calls[d].pc = "done"
        /\ Built(d) /\ Spends(c) \cap Spends(d) # {}
        /\ calls[d].reqs[Len(calls[d].reqs)] = Req("broadcastTransaction", TRUE, 0)
        /\ calls[d].result.status = "RpcError"

\* Call c is a quoteSendTransaction that returned a fee
Quoted(c) ==
    calls[c].op = "quoteSendTransaction" /\ calls[c].pc = "done" /\ calls[c].result.status = "ok"

\* C18: quoteSendTransaction never issues a broadcast request, and the fee it
\* returns is the fee sendTransaction reports for the same recipient and value
\* when both calls got the same unspent list and the same fee estimate.
C18_QuoteMatchesSend ==
    \A c \in Calls :
        calls[c].op = "quoteSendTransaction" =>
            /\ Broadcasts(c) = {}
            /\ calls[c].pc # "broadcast"
            /\ calls[c].result.hash = NoHash
            /\ \A d \in Calls :
                  /\ Quoted(c) /\ Sent(d)
                  /\ calls[c].recipient = calls[d].recipient /\ calls[c].amount = calls[d].amount
                  /\ calls[c].list = calls[d].list
                  => calls[c].result.fee = calls[d].result.fee

\* A quote and a send of the same value over the same unspent list both returned
C18_Witness ==
    \E c, d \in Calls :
        /\ Quoted(c) /\ Sent(d)
        /\ calls[c].recipient = calls[d].recipient /\ calls[c].amount = calls[d].amount
        /\ calls[c].list = calls[d].list
        /\ calls[c].result.fee = calls[d].result.fee /\ calls[c].result.fee >= MIN_FEE
        /\ Broadcasts(c) = {}

C14_BoundedRetries ==
    /\ retry.attempts <= DefaultMaxRetry
    /\ \A r \in rejected :
           r.error = "ConnectFailed" => r.attempts = DefaultMaxRetry + 1 /\ r.attempts = 3

\* A request gave up after its third failed connection attempt
C14_Witness ==
    \E r \in rejected : r.error = "ConnectFailed" /\ r.attempts = 3

(***************************************************************************)
(* Properties of sign, verify and the unsupported operations               *)
(***************************************************************************)
\* C17: on an active account, verify(m, sign(m)) is true and verify(m2, sign(m))
\* is false when m2 differs from m.
C17_SignVerify ==
    lastSync.op = "verify" /\ ~lastSync.disposed =>
        /\ lastSync.status = "ok"
        /\ lastSync.valid <=> lastSync.message = lastSync.signed

\* verify was given the signature of another message and answered false
C17_Witness ==
    /\ lastSync.op = "verify" /\ lastSync.status = "ok"
    /\ lastSync.message # lastSync.signed /\ ~lastSync.valid

\* C19: transfer, quoteTransfer and getTokenBalance fail, for every argument and
\* in every account state, with the message "The '<method>' method is not
\* supported on the bitcoin blockchain." naming the method called, issue no
\* gateway request and change no account state.
C19_Unsupported ==
    /\ [](lastSync.op \in {"transfer", "quoteTransfer", "getTokenBalance"} =>
             /\ lastSync.status = "Unsupported"
             /\ lastSync.error =
                   <<"The '", lastSync.op, "' method is not supported on the bitcoin blockchain.">>)
    /\ [][lastSync'.op \in {"transfer", "quoteTransfer", "getTokenBalance"} =>
             UNCHANGED <<masterNode, account, disconnects, calls, unspent, spent, feeEstimate,
                         histVars, ensVars, gwVars>>]_vars

\* quoteTransfer was called on a disposed account and threw its message
C19_Witness ==
    /\ lastSync.op = "quoteTransfer" /\ lastSync.disposed
    /\ lastSync.error = UnsupportedMessage("quoteTransfer")

====
